---- MODULE Spec2Model ----
(***************************************************************************)
(* A model of snowflake-data-diff.py: the cached catalog query             *)
(* (run_query_sf), the four-step table resolver (load_sf_db_list), the     *)
(* script that resolves the source and the target table, and the           *)
(* 'Show Table Diff' button handler with its three-bucket partition.       *)
(***************************************************************************)
EXTENDS Integers, Sequences, FiniteSets, TLC

VARIABLES
    now,        \* wall clock, in seconds
    cache,      \* st.cache_data store of run_query_sf: query text -> [val, at]
    calls,      \* history of the run_query_sf calls (observation only)
    pc,         \* position of the script: "rerun", "source", "target", "button"
    clicked,    \* st.button('Show Table Diff') is true in this run of the script
    source,     \* full_qual_source_name, source_key_col, source_col_list
    target,     \* full_qual_target_name, target_key_col, target_col_list
    lastLoad,   \* what the latest load_sf_db_list call did (observation only)
    ui,         \* what the button section has put on the page in this run
    engine,     \* the calls made to the diff engine and the read-back in this run
    materialized, \* the diff tables persisted in the warehouse: name -> rows
    diff_op,    \* the materialized diff result the partition is applied to
    buckets,    \* the outcome of the partition
    data,       \* the row-level difference of the tables the engine computes
    clicks      \* history of the runs of the button handler (observation only)

vars == <<now, cache, calls, pc, clicked, source, target, lastLoad, ui, engine,
          materialized, diff_op, buckets, data, clicks>>

----------------------------------------------------------------------------
(* Bounds of the model *)

MaxTicks == 4
MaxCalls == 3
MaxRows == 4

----------------------------------------------------------------------------
(* run_query_sf: the cached catalog query *)

\* @st.cache_data(ttl=600)
TTL == 600

\* the time zone name interpolated into the database listing
current_tz == "UTC"

\* the lengths of time the clock may advance by between two calls
TickSizes == {300}

\* An outcome of executing a query on the warehouse: the rows fetched, or an
\* exception raised by cur.execute / cur.fetchall.
Fetched(rows) == [ok |-> TRUE, rows |-> rows]
Raised == [ok |-> FALSE, rows |-> <<>>]

\* (variant: an entry still served at the very second it expires)
LiveMutInclusive(c, q, t) == q \in DOMAIN c /\ t - c[q].at <= TTL

\* An entry is served until ttl seconds after it was stored; reading it does
\* not renew it.
Live(c, q, t) == q \in DOMAIN c /\ t - c[q].at < TTL

\* The store without the entry of q.
Without(c, q) == [k \in (DOMAIN c) \ {q} |-> c[k]]

\* run_query_sf(query) at time t, the warehouse answering `outcome` if asked:
\* the new store, what the call returns (or raises), whether the warehouse
\* executed the query.
run_query_sf(c, q, t, outcome) ==
    IF Live(c, q, t)
    THEN [cache |-> c, ret |-> Fetched(c[q].val), executed |-> FALSE]
    ELSE IF outcome.ok
         THEN [cache |-> (q :> [val |-> outcome.rows, at |-> t]) @@ Without(c, q),
               ret |-> outcome, executed |-> TRUE]
         ELSE [cache |-> Without(c, q), ret |-> outcome, executed |-> TRUE]

----------------------------------------------------------------------------
(* load_sf_db_list: the four-step table resolver *)

\* the column names each step builds its DataFrame with
DbColumns == <<"DATABASE_NAME", "CREATED", "DATABASE_OWNER", "COMMENT", "UNKNOWN_COLUMN">>
SchemaColumns == <<"created_on", "name", "kind", "database_name", "SCHEMA_NAME">>
TableColumns == <<"created_on", "name", "kind", "database_name", "SCHEMA_NAME">>
ColumnColumns == <<"table_name", "schema_name", "column_name", "data_type", "null?",
                   "default", "kind", "expression", "comment", "database_name",
                   "autoincrement">>

\* the query texts
DbQuery ==
    "SELECT DATABASE_NAME, CONVERT_TIMEZONE('" \o current_tz \o
    "', CREATED) as CREATED_TIME, DATABASE_OWNER, COMMENT FROM SNOWFLAKE.INFORMATION_SCHEMA.DATABASES ORDER BY CREATED_TIME DESC;"
SchemaQuery(db_name) == "SHOW TERSE SCHEMAS IN " \o db_name \o ";"
\* (variant: the table listing with database and schema swapped)
TableQueryMutSwap(db_name, schema_name) ==
    "SHOW TERSE TABLES IN SCHEMA " \o schema_name \o "." \o db_name \o ";"
TableQuery(db_name, schema_name) ==
    "SHOW TERSE TABLES IN SCHEMA " \o db_name \o "." \o schema_name \o ";"
ColumnQuery(db_name, schema_name, table_name) ==
    "SHOW TERSE COLUMNS IN " \o db_name \o "." \o schema_name \o "." \o table_name \o ";"

\* full_qual_name = db_name + "." + schema_name + "." + table_name
FullQualName(db_name, schema_name, table_name) ==
    db_name \o "." \o schema_name \o "." \o table_name

\* The position of a column name in a list of column names.
IndexOf(columns, name) == CHOOSE i \in 1..Len(columns) : columns[i] = name

\* pd.DataFrame(rows, columns=columns): a ValueError unless every row has as
\* many values as there are column names.
DataFrame(rows, columns) ==
    [ok |-> \A i \in 1..Len(rows) : Len(rows[i]) = Len(columns),
     rows |-> rows, columns |-> columns]

\* df[name], and the first column of df (what st.selectbox offers when it is
\* given the DataFrame itself)
Series(df, name) == [i \in 1..Len(df.rows) |-> df.rows[i][IndexOf(df.columns, name)]]
FirstColumn(df) == [i \in 1..Len(df.rows) |-> df.rows[i][1]]

\* One step of the resolver on what run_query_sf returned: "if not rows: raise
\* ValueError", then the DataFrame; the options of the step's selectbox.
\* A step that raises has ok = FALSE.
Step(ret, columns, name) ==
    IF ~ret.ok \/ ret.rows = <<>> \/ ~DataFrame(ret.rows, columns).ok
    THEN [ok |-> FALSE, options |-> <<>>]
    ELSE [ok |-> TRUE,
          options |-> IF name = "" THEN FirstColumn(DataFrame(ret.rows, columns))
                      ELSE Series(DataFrame(ret.rows, columns), name)]

\* The values of a sequence.
Range(s) == {s[i] : i \in 1..Len(s)}

\* the sentinel (None, None, None), and a resolved triple
Unresolved == [resolved |-> FALSE, full_qual_name |-> "", key_column_name |-> "",
               columns |-> <<>>]
Resolved(name, key, columns) ==
    [resolved |-> TRUE, full_qual_name |-> name, key_column_name |-> key,
     columns |-> columns]

\* "if full_qual_source_name": None and the empty string are false
Truthy(t) == t.resolved /\ t.full_qual_name # ""

\* What the warehouse may answer to the catalog queries: a row is a tuple of
\* `width` values with the listed name in the column the step reads.
Row(name, width, pos) == [i \in 1..width |-> IF i = pos THEN name ELSE "-"]
Rows(names, width, pos) == [i \in 1..Len(names) |-> Row(names[i], width, pos)]

DbWidths == {4, 5}
SchemaWidths == {4, 5}
TableWidths == {5, 6}
ColumnWidths == {11, 12}

DbOutcomes ==
    {Raised, Fetched(<<>>)} \cup {Fetched(Rows(<<"DB1">>, w, 1)) : w \in DbWidths}
SchemaOutcomes ==
    {Raised, Fetched(<<>>)} \cup {Fetched(Rows(<<"S1">>, w, 2)) : w \in SchemaWidths}
TableOutcomes ==
    {Raised, Fetched(<<>>)} \cup {Fetched(Rows(<<"T1", "T2">>, w, 2)) : w \in TableWidths}
ColumnOutcomes ==
    {Raised, Fetched(<<>>)} \cup {Fetched(Rows(<<"K1", "K2">>, w, 3)) : w \in ColumnWidths}

\* The warehouse is asked only when the store has no live entry.
Asked(c, q, outcomes) == IF Live(c, q, now) THEN {Raised} ELSE outcomes

\* The end of a load_sf_db_list(count) call: the store as the queries left it,
\* the triple returned to the script, and the record of the call.
Returns(count, c, issued, returned, sel, result, errors) ==
    /\ cache' = c
    /\ lastLoad' = [count |-> count, issued |-> issued, returned |-> returned,
                    sel |-> sel, errors |-> errors, result |-> result]
    /\ IF count = 1
       THEN source' = result /\ target' = target /\ pc' = "target"
       ELSE target' = result /\ source' = source /\ pc' = "button"

\* except Exception: logging.error, st.error, return None, None, None
Fails(count, c, issued, returned, sel) ==
    Returns(count, c, issued, returned, sel, Unresolved, 1)

\* load_sf_db_list(count): the four queries, each followed by its selectbox.
load_sf_db_list(count) ==
    \E o1 \in Asked(cache, DbQuery, DbOutcomes) :
    LET r1 == run_query_sf(cache, DbQuery, now, o1)
        s1 == Step(r1.ret, DbColumns, "")
    IN
    IF ~s1.ok THEN Fails(count, r1.cache, <<DbQuery>>, <<r1.ret>>, <<>>)
    ELSE
    \E db_name \in Range(s1.options) :
    \E o2 \in Asked(r1.cache, SchemaQuery(db_name), SchemaOutcomes) :
    LET q2 == SchemaQuery(db_name)
        r2 == run_query_sf(r1.cache, q2, now, o2)
        s2 == Step(r2.ret, SchemaColumns, "name")
    IN
    IF ~s2.ok THEN Fails(count, r2.cache, <<DbQuery, q2>>, <<r1.ret, r2.ret>>, <<db_name>>)
    ELSE
    \E schema_name \in Range(s2.options) :
    \E o3 \in Asked(r2.cache, TableQuery(db_name, schema_name), TableOutcomes) :
    LET q3 == TableQuery(db_name, schema_name)
        r3 == run_query_sf(r2.cache, q3, now, o3)
        s3 == Step(r3.ret, TableColumns, "name")
    IN
    IF ~s3.ok
    THEN Fails(count, r3.cache, <<DbQuery, q2, q3>>, <<r1.ret, r2.ret, r3.ret>>,
               <<db_name, schema_name>>)
    ELSE
    \E table_name \in Range(s3.options) :
    \E o4 \in Asked(r3.cache, ColumnQuery(db_name, schema_name, table_name),
                     ColumnOutcomes) :
    LET q4 == ColumnQuery(db_name, schema_name, table_name)
        r4 == run_query_sf(r3.cache, q4, now, o4)
        s4 == Step(r4.ret, ColumnColumns, "column_name")
    IN
    IF ~s4.ok
    THEN Fails(count, r4.cache, <<DbQuery, q2, q3, q4>>,
               <<r1.ret, r2.ret, r3.ret, r4.ret>>, <<db_name, schema_name, table_name>>)
    ELSE
    \E key_column_name \in Range(s4.options) :
        Returns(count, r4.cache, <<DbQuery, q2, q3, q4>>,
                <<r1.ret, r2.ret, r3.ret, r4.ret>>,
                <<db_name, schema_name, table_name, key_column_name>>,
                Resolved(FullQualName(db_name, schema_name, table_name),
                         key_column_name, s4.options),
                0)

----------------------------------------------------------------------------
(* The three-bucket partition of the materialized diff result *)

\* The masks of the three .loc selections.
InNotInTarget(row) == row.is_exclusive_a /\ ~row.is_exclusive_b
\* (variant: not_in_source without the test of is_exclusive_a)
InNotInSourceMutDropA(row) == row.is_exclusive_b
InNotInSource(row) == ~row.is_exclusive_a /\ row.is_exclusive_b
\* (variant: value_mismatch with | in place of &)
InValueMismatchMutOr(row) == ~row.is_exclusive_a \/ ~row.is_exclusive_b
InValueMismatch(row) == ~row.is_exclusive_a /\ ~row.is_exclusive_b

\* not_in_target, not_in_source, value_mismatch and their len().
Classify(df) ==
    [computed |-> TRUE,
     not_in_target |-> SelectSeq(df, InNotInTarget),
     not_in_source |-> SelectSeq(df, InNotInSource),
     value_mismatch |-> SelectSeq(df, InValueMismatch),
     total_not_in_target |-> Len(SelectSeq(df, InNotInTarget)),
     total_not_in_source |-> Len(SelectSeq(df, InNotInSource)),
     total_value_mismatch |-> Len(SelectSeq(df, InValueMismatch))]

\* The three indicators of the count chart: title -> value.
fig_count(b) ==
    ("Missing in Target" :> b.total_not_in_target)
    @@ ("Missing in Source" :> b.total_not_in_source)
    @@ ("Value Mismatch" :> b.total_value_mismatch)

NoBuckets ==
    [computed |-> FALSE, not_in_target |-> <<>>, not_in_source |-> <<>>,
     value_mismatch |-> <<>>, total_not_in_target |-> 0, total_not_in_source |-> 0,
     total_value_mismatch |-> 0]

\* The materialized diff results of n rows: every row carries its index label
\* and the two flags.
DiffFrame(flags) ==
    [i \in 1..Len(flags) |->
        [index |-> i - 1, is_exclusive_a |-> flags[i][1], is_exclusive_b |-> flags[i][2]]]
DiffFrames(n) == {DiffFrame(f) : f \in [1..n -> BOOLEAN \X BOOLEAN]}
DiffOps == UNION {DiffFrames(n) : n \in 0..MaxRows}

----------------------------------------------------------------------------
(* The 'Show Table Diff' button handler *)

PreconditionMsg == "Source and Target tables must be selected before showing table diff."
FailureMsg == "Error calculating table differences. Please check your selections and try again."

\* The steps of the handler that can raise, in the order the handler takes them.
Stages == <<"SNOWFLAKE_CONN_INFO", "connect_to_table_a", "connect_to_table_b",
            "diff_tables", "read_sql_query", "partition",
            "csv_not_in_target", "key_not_in_target",
            "csv_not_in_source", "key_not_in_source",
            "csv_value_mismatch", "key_value_mismatch">>

\* What the environment of one run decides: the step at which the engine, the
\* read-back, the partition, a CSV conversion or the rendering of a key column
\* raises ("none": none does).
EnvFailures == (Range(Stages) \ {"SNOWFLAKE_CONN_INFO"}) \cup {"none"}

\* The differences between the tables of the warehouse, which no step of the
\* script changes: none, or the four rows (T,F), (F,T), (F,F), (F,F).
EngineRows ==
    {DiffFrame(<<>>),
     DiffFrame(<<<<TRUE, FALSE>>, <<FALSE, TRUE>>, <<FALSE, FALSE>>, <<FALSE, FALSE>>>>)}

\* (variant: a script that binds SNOWFLAKE_CONN_INFO)
ConnInfoBoundMutDefined == TRUE

\* SNOWFLAKE_CONN_INFO is read by both connect_to_table calls and is bound
\* nowhere in the script: reading it raises NameError.
ConnInfoBound == FALSE

\* The first step of the run that raises.
FirstFailure(failAt) == IF ConnInfoBound THEN failAt ELSE "SNOWFLAKE_CONN_INFO"

\* The handler got to `stage` / got past it without an exception.
Reached(f, stage) == f = "none" \/ IndexOf(Stages, f) >= IndexOf(Stages, stage)
Passed(f, stage) == f = "none" \/ IndexOf(Stages, f) > IndexOf(Stages, stage)

When(cond, item) == IF cond THEN <<item>> ELSE <<>>

EngineCall(op, table, key, extra, to) ==
    [op |-> op, table |-> table, key |-> key, extra_columns |-> extra,
     materialize_to_table |-> to]

\* materialize_table_name = f"{full_qual_target_name}_DIFF"
MaterializeTableName(tgt) == tgt.full_qual_name \o "_DIFF"

\* (variant: the precondition with "or" in place of "and")
BothSelectedMutOr(src, tgt) == Truthy(src) \/ Truthy(tgt)

\* if full_qual_source_name and full_qual_target_name
BothSelected(src, tgt) == Truthy(src) /\ Truthy(tgt)

\* The calls the try block makes to the engine and the read-back, up to the
\* first step f that raises.
EngineCalls(src, tgt, f) ==
    When(Reached(f, "connect_to_table_a"),
         EngineCall("connect_to_table", src.full_qual_name, src.key_column_name, <<>>, ""))
    \o When(Reached(f, "connect_to_table_b"),
            EngineCall("connect_to_table", tgt.full_qual_name, tgt.key_column_name, <<>>, ""))
    \o When(Reached(f, "diff_tables"),
            EngineCall("diff_tables", "", "", src.columns, MaterializeTableName(tgt)))
    \o When(Reached(f, "read_sql_query"),
            EngineCall("read_sql_query", MaterializeTableName(tgt), "", <<>>, ""))

\* What the try block and its except clause put on the page, up to the first
\* step f that raises.
Shown(f) ==
    When(Passed(f, "partition"), "plotly_chart")
    \o When(Passed(f, "partition"), "subheader Missing in Target Table")
    \o When(Passed(f, "csv_not_in_target"), "download_button not_in_target.csv")
    \o When(Passed(f, "key_not_in_target"), "write not_in_target")
    \o When(Passed(f, "key_not_in_target"), "subheader Missing in Source Table")
    \o When(Passed(f, "csv_not_in_source"), "download_button not_in_source.csv")
    \o When(Passed(f, "key_not_in_source"), "write not_in_source")
    \o When(Passed(f, "key_not_in_source"), "subheader Value Mismatch")
    \o When(Passed(f, "csv_value_mismatch"), "download_button value_mismatch.csv")
    \o When(Passed(f, "key_value_mismatch"), "write value_mismatch")
    \o When(f # "none", FailureMsg)

\* The diff engine drops the table it materializes to and writes the rows.
Materialize(m, name, rows) == (name :> rows) @@ [k \in (DOMAIN m) \ {name} |-> m[k]]

\* The body of "if st.button('Show Table Diff')", the environment raising at
\* failAt.
ShowTableDiff(failAt) ==
    IF BothSelected(source, target)
    THEN LET f == FirstFailure(failAt)
             name == MaterializeTableName(target)
         IN /\ engine' = EngineCalls(source, target, f)
            /\ materialized' = IF Passed(f, "diff_tables")
                               THEN Materialize(materialized, name, data)
                               ELSE materialized
            /\ diff_op' = IF Passed(f, "read_sql_query")
                          THEN Materialize(materialized, name, data)[name]
                          ELSE diff_op
            /\ buckets' = IF Passed(f, "partition")
                          THEN Classify(Materialize(materialized, name, data)[name])
                          ELSE buckets
            /\ ui' = Shown(f)
    ELSE /\ ui' = <<PreconditionMsg>>
         /\ UNCHANGED <<engine, materialized, diff_op, buckets>>

----------------------------------------------------------------------------
(* The script: every interaction runs it from top to bottom.  Spec follows *)
(* the reruns of a session within the life of the cached listings; the     *)
(* expiry of the cache is followed in SpecCache.                           *)

NoLoad == [count |-> 0, issued |-> <<>>, returned |-> <<>>, sel |-> <<>>,
           errors |-> 0, result |-> Unresolved]

Init ==
    /\ now = 0
    /\ cache = <<>>
    /\ calls = <<>>
    /\ pc = "rerun"
    /\ clicked = FALSE
    /\ source = Unresolved
    /\ target = Unresolved
    /\ lastLoad = NoLoad
    /\ ui = <<>>
    /\ engine = <<>>
    /\ materialized = <<>>
    /\ diff_op = <<>>
    /\ buckets = NoBuckets
    /\ data \in EngineRows
    /\ clicks = <<>>

\* An interaction (a selection, or a press of the button) starts a run on an
\* empty page.
Rerun ==
    /\ pc = "rerun"
    /\ pc' = "source"
    /\ clicked' \in BOOLEAN
    /\ ui' = <<>>
    /\ engine' = <<>>
    /\ buckets' = NoBuckets
    /\ diff_op' = <<>>
    /\ UNCHANGED <<now, cache, calls, source, target, lastLoad, materialized, data, clicks>>

\* with col1: ... load_sf_db_list(1)
LoadSource ==
    /\ pc = "source"
    /\ load_sf_db_list(1)
    /\ UNCHANGED <<now, calls, clicked, ui, engine, materialized, diff_op, buckets, data, clicks>>

\* with col2: ... load_sf_db_list(100)
LoadTarget ==
    /\ pc = "target"
    /\ load_sf_db_list(100)
    /\ UNCHANGED <<now, calls, clicked, ui, engine, materialized, diff_op, buckets, data, clicks>>

\* The record of a run of the handler, and the history with it added: the
\* runs made in a row with the same selections, the latest two of them.
Click(failAt) ==
    [source |-> source, target |-> target, clean |-> failAt = "none",
     ui |-> ui', engine |-> engine',
     table |-> IF BothSelected(source, target)
                  /\ Passed(FirstFailure(failAt), "diff_tables")
               THEN MaterializeTableName(target) ELSE "",
     buckets |-> buckets']
Clicked(h, c) ==
    IF h # <<>> /\ h[Len(h)].source = c.source /\ h[Len(h)].target = c.target
    THEN <<h[Len(h)], c>>
    ELSE <<c>>

\* if st.button('Show Table Diff'): ...
Button ==
    /\ pc = "button"
    /\ pc' = "rerun"
    /\ IF clicked
       THEN \E failAt \in EnvFailures :
               /\ ShowTableDiff(failAt)
               /\ clicks' = Clicked(clicks, Click(failAt))
       ELSE UNCHANGED <<ui, engine, materialized, diff_op, buckets, clicks>>
    /\ UNCHANGED <<now, cache, calls, clicked, source, target, lastLoad, data>>

Next == Rerun \/ LoadSource \/ LoadTarget \/ Button

Spec == Init /\ [][Next]_vars

----------------------------------------------------------------------------
(* run_query_sf on its own: calls from either resolver, and time passing *)

CacheQueries == {DbQuery, SchemaQuery("DB1")}
OutcomesOf(q) == IF q = DbQuery THEN DbOutcomes ELSE SchemaOutcomes

\* A call run_query_sf(q) made by load_sf_db_list(count).
CallRunQuery ==
    /\ Len(calls) < MaxCalls
    /\ \E q \in CacheQueries, count \in {1, 100} :
       \E o \in Asked(cache, q, OutcomesOf(q)) :
          LET r == run_query_sf(cache, q, now, o)
          IN /\ cache' = r.cache
             /\ calls' = Append(calls, [query |-> q, by |-> count, at |-> now,
                                        ret |-> r.ret, executed |-> r.executed])
    /\ UNCHANGED <<now, pc, clicked, source, target, lastLoad, ui, engine,
                   materialized, diff_op, buckets, data, clicks>>

\* Time passes between two calls.
Tick ==
    /\ \E d \in TickSizes : now + d <= MaxTicks * d /\ now' = now + d
    /\ UNCHANGED <<cache, calls, pc, clicked, source, target, lastLoad, ui, engine,
                   materialized, diff_op, buckets, data, clicks>>

NextCache == CallRunQuery \/ Tick

InitCache == Init /\ data = DiffFrame(<<>>)

SpecCache == InitCache /\ [][NextCache]_vars

----------------------------------------------------------------------------
(* The partition on its own: every materialized result of up to MaxRows rows *)

InitPartition ==
    /\ now = 0
    /\ cache = <<>>
    /\ calls = <<>>
    /\ pc = "button"
    /\ clicked = TRUE
    /\ source = Unresolved
    /\ target = Unresolved
    /\ lastLoad = NoLoad
    /\ ui = <<>>
    /\ engine = <<>>
    /\ materialized = <<>>
    /\ diff_op \in DiffOps
    /\ buckets = NoBuckets
    /\ data = DiffFrame(<<>>)
    /\ clicks = <<>>

\* The three .loc selections and the three len() on diff_op.
Partition ==
    /\ ~buckets.computed
    /\ buckets' = Classify(diff_op)
    /\ UNCHANGED <<now, cache, calls, pc, clicked, source, target, lastLoad, ui,
                   engine, materialized, diff_op, data, clicks>>

NextPartition == Partition

SpecPartition == InitPartition /\ [][NextPartition]_vars

----------------------------------------------------------------------------
(* Properties of the button handler *)

\* The bucket output of a run: the count chart, the bucket headers, the
\* download buttons and the bucket listings.
BucketOutput == Range(Shown("none"))

\* A run in which the button was pressed has ended.
ClickedRunEnded == pc = "rerun" /\ clicked

C4_NoEngineCallWhenUnresolved ==
    (ClickedRunEnded /\ (~source.resolved \/ ~target.resolved)) =>
        /\ ui = <<PreconditionMsg>>
        /\ engine = <<>>
        /\ diff_op = <<>>
        /\ ~buckets.computed

\* The button was pressed with the source resolved and the target unresolved.
C4_Witness ==
    /\ ClickedRunEnded
    /\ source.resolved
    /\ ~target.resolved
    /\ ui = <<PreconditionMsg>>

\* C5: a run of 'Show Table Diff' with both tables resolved, in which nothing
\* of the engine, the read-back or the rendering fails, opens the source handle
\* on the source key and the target handle on the target key, then runs the
\* diff with materialization, then reads the materialized table back, and ends
\* with the three counts and without the failure message.
C5_DiffThenReadBack ==
    \A i \in 1..Len(clicks) :
        (BothSelected(clicks[i].source, clicks[i].target) /\ clicks[i].clean) =>
            /\ clicks[i].engine =
                  <<EngineCall("connect_to_table", clicks[i].source.full_qual_name,
                               clicks[i].source.key_column_name, <<>>, ""),
                    EngineCall("connect_to_table", clicks[i].target.full_qual_name,
                               clicks[i].target.key_column_name, <<>>, ""),
                    EngineCall("diff_tables", "", "", clicks[i].source.columns,
                               clicks[i].target.full_qual_name \o "_DIFF"),
                    EngineCall("read_sql_query",
                               clicks[i].target.full_qual_name \o "_DIFF", "", <<>>, "")>>
            /\ clicks[i].buckets.computed
            /\ FailureMsg \notin Range(clicks[i].ui)

\* C7: two runs of 'Show Table Diff' in a row with the same resolved
\* selections, the table data unchanged and nothing failing, both materialize
\* to the target's qualified name followed by _DIFF, the table then holding the
\* rows of one run only, and both yield the same three counts.
C7_Idempotent ==
    (/\ Len(clicks) = 2
     /\ BothSelected(clicks[1].source, clicks[1].target)
     /\ clicks[1].clean /\ clicks[2].clean) =>
        /\ clicks[1].table = clicks[1].target.full_qual_name \o "_DIFF"
        /\ clicks[2].table = clicks[1].table
        /\ clicks[1].table \in DOMAIN materialized
        /\ materialized[clicks[1].table] = data
        /\ clicks[1].buckets.computed /\ clicks[2].buckets.computed
        /\ fig_count(clicks[1].buckets) = fig_count(clicks[2].buckets)

----------------------------------------------------------------------------
(* Properties of the resolver *)

\* The shapes of the four listings as the specification gives them.
ExpectedShape == <<4, 5, 5, 11>>

\* The column of each listing the step's selectbox offers.
NameColumn == <<1, 2, 2, 3>>

Loaded == lastLoad.count # 0

\* The k-th query of the latest call returned a non-empty result of `width`
\* columns.
WellShaped(k, width) ==
    /\ lastLoad.returned[k].ok
    /\ lastLoad.returned[k].rows # <<>>
    /\ \A r \in Range(lastLoad.returned[k].rows) : Len(r) = width

\* C2: a call of load_sf_db_list in which every catalog query returns a
\* non-empty result of the expected shape (4, 5, 5, 11 columns) returns the
\* selected database.schema.table, the selected key column and the ordered
\* list of column names, not (None, None, None).
C2_ResolvesWellShaped ==
    (Loaded /\ \A k \in 1..Len(lastLoad.returned) : WellShaped(k, ExpectedShape[k])) =>
        /\ Len(lastLoad.sel) = 4
        /\ lastLoad.result.resolved
        /\ lastLoad.result.full_qual_name =
              lastLoad.sel[1] \o "." \o lastLoad.sel[2] \o "." \o lastLoad.sel[3]
        /\ lastLoad.result.key_column_name = lastLoad.sel[4]
        /\ lastLoad.result.columns =
              [i \in 1..Len(lastLoad.returned[4].rows) |-> lastLoad.returned[4].rows[i][3]]

\* C3: a call of load_sf_db_list in which a catalog query raises, returns no
\* rows, or returns rows whose width differs from the expected shape shows one
\* error message and returns (None, None, None).
C3_FailureGivesSentinel ==
    (Loaded /\ \E k \in 1..Len(lastLoad.returned) : ~WellShaped(k, ExpectedShape[k])) =>
        /\ lastLoad.errors = 1
        /\ lastLoad.result = Unresolved

\* The widths the four steps accept: the number of column names each builds
\* its DataFrame with.
AcceptedShape == <<Len(DbColumns), Len(SchemaColumns), Len(TableColumns), Len(ColumnColumns)>>

\* C10: a call of load_sf_db_list issues the database, schema, table and
\* column listings in this order; each query after the first is issued only
\* after the step before it returned a non-empty result of the shape that step
\* accepts, and is built from the values selected so far; a step that fails is
\* the last one whose query is issued.
C10_QueryOrder ==
    Loaded =>
        LET n == Len(lastLoad.issued)
            sel == lastLoad.sel
        IN /\ n \in 1..4
           /\ Len(lastLoad.returned) = n
           /\ lastLoad.issued[1] = DbQuery
           /\ n >= 2 => lastLoad.issued[2] = "SHOW TERSE SCHEMAS IN " \o sel[1] \o ";"
           /\ n >= 3 => lastLoad.issued[3] =
                  "SHOW TERSE TABLES IN SCHEMA " \o sel[1] \o "." \o sel[2] \o ";"
           /\ n >= 4 => lastLoad.issued[4] =
                  "SHOW TERSE COLUMNS IN " \o sel[1] \o "." \o sel[2] \o "." \o sel[3] \o ";"
           /\ \A k \in 1..(n - 1) :
                  /\ WellShaped(k, AcceptedShape[k])
                  /\ sel[k] \in {r[NameColumn[k]] : r \in Range(lastLoad.returned[k].rows)}
           /\ ~lastLoad.result.resolved =>
                  (~WellShaped(n, AcceptedShape[n]) /\ Len(sel) = n - 1)
           /\ lastLoad.result.resolved => (n = 4 /\ WellShaped(4, AcceptedShape[4]))

\* A call issued all four queries, the second table selected.
C10_Witness ==
    /\ Loaded
    /\ Len(lastLoad.issued) = 4
    /\ lastLoad.result.resolved
    /\ lastLoad.sel[3] = "T2"

----------------------------------------------------------------------------
(* Properties of the cache *)

SameQuery(i, j) == calls[i].query = calls[j].query

\* The calls before call j that executed its query and stored the result.
Stored(j) == {i \in 1..(j - 1) : SameQuery(i, j) /\ calls[i].executed /\ calls[i].ret.ok}
Latest(S) == CHOOSE i \in S : \A k \in S : k <= i

\* C8 as claimed: of any two calls with the same query text made less than
\* 600 seconds apart, the first of which returned a result, at most one
\* executes the query and the second returns the result of the first; a call
\* whose latest stored result is 600 seconds old or older executes the query.
C8_AnyTwoCallsWithinTtl ==
    /\ \A i, j \in 1..Len(calls) :
          (/\ i < j /\ SameQuery(i, j) /\ calls[i].ret.ok
           /\ calls[j].at - calls[i].at < 600) =>
              (~(calls[i].executed /\ calls[j].executed) /\ calls[j].ret = calls[i].ret)
    /\ \A j \in 1..Len(calls) :
          (Stored(j) # {} /\ calls[j].at - calls[Latest(Stored(j))].at >= 600) =>
              calls[j].executed

\* C8 as amended: a call made less than 600 seconds after the latest call
\* that executed the same query text and stored its result does not execute
\* the query and returns that result, whichever resolver made either call;
\* every other call executes the query.
C8_WithinTtlOfExecution ==
    \A j \in 1..Len(calls) :
        IF Stored(j) # {} /\ calls[j].at - calls[Latest(Stored(j))].at < 600
        THEN ~calls[j].executed /\ calls[j].ret = calls[Latest(Stored(j))].ret
        ELSE calls[j].executed

\* A stored result was served to the other resolver within the 600 seconds
\* and the query was executed again at the expiry.
C8_Witness ==
    /\ Len(calls) = 3
    /\ SameQuery(1, 2) /\ SameQuery(2, 3)
    /\ calls[1].executed /\ calls[1].ret.ok
    /\ ~calls[2].executed /\ calls[2].by # calls[1].by
    /\ calls[3].executed /\ calls[3].at - calls[1].at = 600

----------------------------------------------------------------------------
(* Properties of the partition *)

BucketsOf(row) ==
    {b \in {"not_in_target", "not_in_source", "value_mismatch"} :
        row \in Range(buckets[b])}

\* C6: when no row of the materialized result has both flags true, every row
\* is in exactly one of not_in_target, not_in_source, value_mismatch, and the
\* buckets hold rows of the result only.
C6_Partition ==
    (buckets.computed
     /\ \A r \in Range(diff_op) : ~(r.is_exclusive_a /\ r.is_exclusive_b)) =>
        /\ \A r \in Range(diff_op) : Cardinality(BucketsOf(r)) = 1
        /\ Range(buckets.not_in_target) \cup Range(buckets.not_in_source)
              \cup Range(buckets.value_mismatch) = Range(diff_op)

\* A result with a row of each kind and no row with both flags was partitioned.
C6_Witness ==
    /\ buckets.computed
    /\ \A r \in Range(diff_op) : ~(r.is_exclusive_a /\ r.is_exclusive_b)
    /\ buckets.not_in_target # <<>>
    /\ buckets.not_in_source # <<>>
    /\ buckets.value_mismatch # <<>>

Count(a, b) ==
    Cardinality({i \in 1..Len(diff_op) :
                    diff_op[i].is_exclusive_a = a /\ diff_op[i].is_exclusive_b = b})

ExampleRows ==
    DiffFrame(<<<<TRUE, FALSE>>, <<FALSE, TRUE>>, <<FALSE, FALSE>>, <<FALSE, FALSE>>>>)

\* C9: the count shown as Missing in Target is the number of rows (T,F), the
\* one shown as Missing in Source the number of rows (F,T), the one shown as
\* Value Mismatch the number of rows (F,F); the rows (T,F), (F,T), (F,F), (F,F)
\* give 1, 1, 2.
C9_Counts ==
    buckets.computed =>
        /\ fig_count(buckets)["Missing in Target"] = Count(TRUE, FALSE)
        /\ fig_count(buckets)["Missing in Source"] = Count(FALSE, TRUE)
        /\ fig_count(buckets)["Value Mismatch"] = Count(FALSE, FALSE)
        /\ diff_op = ExampleRows =>
              /\ buckets.total_not_in_target = 1
              /\ buckets.total_not_in_source = 1
              /\ buckets.total_value_mismatch = 2

\* The example was partitioned.
C9_Witness == buckets.computed /\ diff_op = ExampleRows

====
